---------------------------- MODULE Spec2Model ----------------------------
(***************************************************************************)
(* tables-to-go: the Oracle and Postgresql backends of pkg/database and    *)
(* the "db" tagger.                                                        *)
(*                                                                         *)
(* A Go string whose letter case or content matters (a table name, an      *)
(* owner, a data type, a nullability flag) is a sequence of one-character  *)
(* strings, <<"o", "r">> for "or", so that strings.ToUpper, ToLower and    *)
(* Contains are computed character by character.  Fixed SQL text and       *)
(* placeholders (":v0", "$2") are TLA+ strings.                            *)
(***************************************************************************)
EXTENDS Integers, Sequences, FiniteSets, TLC

VARIABLES
    db,                     \* which backend runs: "oracle" or "postgresql"
    Settings,               \* settings.Settings: Schema, User, Verbose
    catalog,                \* the database's catalog (the environment)
    pc,                     \* the loader's position
    tables,                 \* the name filter GetTables was called with
    dbTables,               \* the tables GetTables returned, Columns attached later
    err,                    \* the error the last operation returned
    args,                   \* the bound arguments of GetTables' query
    inClause,               \* the IN clause of GetTables' query, as tokens
    outcome,                \* what the database did with the last query
    stdout,                 \* the diagnostics printed so far
    GetColumnsOfTableStmt,  \* the prepared statement, Nil before Preparex
    idx,                    \* the loader's position in dbTables
    column,                 \* the column under classification
    verdict                 \* the answers of the predicates on column

vars == <<db, Settings, catalog, pc, tables, dbTables, err, args, inClause,
          outcome, stdout, GetColumnsOfTableStmt, idx, column, verdict>>

Nil == "nil"

---------------------------------------------------------------------------
(* Strings                                                                 *)

LowerLetters ==
    <<"a", "b", "c", "d", "e", "f", "g", "h", "i", "j", "k", "l", "m",
      "n", "o", "p", "q", "r", "s", "t", "u", "v", "w", "x", "y", "z">>

UpperLetters ==
    <<"A", "B", "C", "D", "E", "F", "G", "H", "I", "J", "K", "L", "M",
      "N", "O", "P", "Q", "R", "S", "T", "U", "V", "W", "X", "Y", "Z">>

\* The characters in use, in byte order.
AsciiOrder ==
    <<" ", "(", ")">> \o
    <<"0", "1", "2", "3", "4", "5", "6", "7", "8", "9">> \o
    UpperLetters \o <<"_">> \o LowerLetters

IndexOf(seq, c) == CHOOSE i \in 1..Len(seq) : seq[i] = c

IsIn(seq, c) == \E i \in 1..Len(seq) : seq[i] = c

ToUpperChar(c) == IF IsIn(LowerLetters, c) THEN UpperLetters[IndexOf(LowerLetters, c)] ELSE c

ToLowerChar(c) == IF IsIn(UpperLetters, c) THEN LowerLetters[IndexOf(UpperLetters, c)] ELSE c

\* strings.ToUpper
ToUpper(s) == [i \in 1..Len(s) |-> ToUpperChar(s[i])]

\* strings.ToLower; also SQL's LOWER()
ToLower(s) == [i \in 1..Len(s) |-> ToLowerChar(s[i])]

\* strings.Contains
Contains(s, substr) ==
    \E i \in 0..Len(s) : i + Len(substr) <= Len(s) /\ SubSeq(s, i + 1, i + Len(substr)) = substr

\* Byte-wise string order: the order of ORDER BY on a catalog name.
RECURSIVE StrLess(_, _)
StrLess(a, b) ==
    IF b = <<>> THEN FALSE
    ELSE IF a = <<>> THEN TRUE
    ELSE IF a[1] = b[1] THEN StrLess(Tail(a), Tail(b))
    ELSE IndexOf(AsciiOrder, a[1]) < IndexOf(AsciiOrder, b[1])

DigitChars == <<"0", "1", "2", "3", "4", "5", "6", "7", "8", "9">>

\* strconv.Itoa of a number >= 0
RECURSIVE Itoa(_)
Itoa(n) == IF n < 10 THEN DigitChars[n + 1] ELSE Itoa(n \div 10) \o DigitChars[(n % 10) + 1]

\* strings.Join, as tokens: the elements with sep between them.
Join(elems, sep) ==
    [i \in 1..(IF elems = <<>> THEN 0 ELSE 2 * Len(elems) - 1) |->
        IF i % 2 = 1 THEN elems[(i + 1) \div 2] ELSE sep]

---------------------------------------------------------------------------
(* The catalog: what the database holds.  objects are the tables and views *)
(* of every owner (schema); columns their columns; keys the key            *)
(* constraints, one row per constrained column.                            *)

QueryError == "query failed"

\* ORDER BY on a set of names: ascending byte order.
RECURSIVE OrderByName(_)
OrderByName(S) ==
    IF S = {} THEN <<>>
    ELSE LET m == CHOOSE m \in S : \A o \in S : o = m \/ StrLess(m, o)
         IN  <<m>> \o OrderByName(S \ {m})

\* The placeholders of an IN clause: the tokens between "(" and ")", commas skipped.
InPlaceholders(in) ==
    IF in = <<>> THEN <<>> ELSE [i \in 1..((Len(in) - 1) \div 2) |-> in[2 * i]]

\* sqlx scans one row of table_name into a fresh Table.
NewTable(name) == [Name |-> name, Columns |-> <<>>]

---------------------------------------------------------------------------
(* Oracle.GetTables                                                        *)

\* owner := Settings.Schema, or Settings.User when that is empty; upper-cased.
OracleOwner(S) == ToUpper(IF S.Schema = <<>> THEN S.User ELSE S.Schema)

\* placeholders = ":v0", ":v1", ...
OraclePlaceholders(tbls) == [i \in 1..Len(tbls) |-> ":v" \o Itoa(i - 1)]

\* args = owner, then each filter name upper-cased.
OracleArgs(S, tbls) == <<OracleOwner(S)>> \o [i \in 1..Len(tbls) |-> ToUpper(tbls[i])]

OracleInClause(tbls) ==
    IF Len(tbls) > 0
    THEN <<"AND OBJECT_NAME IN (">> \o Join(OraclePlaceholders(tbls), ",") \o <<")">>
    ELSE <<>>

\* GetTables' query without its condition OBJECT_TYPE = 'TABLE'.
OracleSelectTables_AnyType(cat, in, a, fail) ==
    LET names    == <<":owner">> \o InPlaceholders(in)
        bound(p) == a[IndexOf(names, p)]
        hit      == {o \in cat.objects :
                        /\ o.owner = bound(":owner")
                        /\ \/ in = <<>>
                           \/ \E i \in 1..Len(InPlaceholders(in)) :
                                  o.name = bound(InPlaceholders(in)[i])}
        sorted   == OrderByName({o.name : o \in hit})
    IN  IF fail \/ Len(a) # Len(names)
        THEN [rows |-> <<>>, err |-> QueryError]
        ELSE [rows |-> [i \in 1..Len(sorted) |-> NewTable(sorted[i])], err |-> Nil]

\* The database's answer to GetTables' query.  The driver binds the arguments by
\* position to the placeholders in the order of the text: :owner, then the IN list.
OracleSelectTables(cat, in, a, fail) ==
    LET names    == <<":owner">> \o InPlaceholders(in)
        bound(p) == a[IndexOf(names, p)]
        hit      == {o \in cat.objects :
                        /\ o.type = "TABLE"
                        /\ o.owner = bound(":owner")
                        /\ \/ in = <<>>
                           \/ \E i \in 1..Len(InPlaceholders(in)) :
                                  o.name = bound(InPlaceholders(in)[i])}
        sorted   == OrderByName({o.name : o \in hit})
    IN  IF fail \/ Len(a) # Len(names)
        THEN [rows |-> <<>>, err |-> QueryError]
        ELSE [rows |-> [i \in 1..Len(sorted) |-> NewTable(sorted[i])], err |-> Nil]

OracleGetTables(S, cat, tbls, fail) ==
    LET owner == OracleOwner(S)
        a     == OracleArgs(S, tbls)
        in    == OracleInClause(tbls)
        sel   == OracleSelectTables(cat, in, a, fail)
    IN  [dbTables |-> sel.rows, err |-> sel.err, args |-> a, in |-> in,
         out |-> IF sel.err # Nil /\ S.Verbose
                 THEN << <<"> Error at GetTables()">>, <<"> owner:", owner>> >>
                 ELSE <<>>]

---------------------------------------------------------------------------
(* Postgresql.GetTables                                                    *)

\* The loop of andInClause: "$n" for n = narg+i, a comma after all but the last.
RECURSIVE WriteParams(_, _, _)
WriteParams(i, narg, nparam) ==
    IF i > nparam THEN <<>>
    ELSE <<"$" \o Itoa(narg + i)>>
         \o (IF i <= nparam - 1 THEN <<",">> ELSE <<>>)
         \o WriteParams(i + 1, narg, nparam)

\* andInClause numbering its placeholders from len(*args) instead of len(*args)+1.
andInClause_OffByOne(field, params, a) ==
    IF field = "" \/ Len(params) = 0
    THEN [in |-> <<>>, args |-> a]
    ELSE [in   |-> <<"AND " \o field \o " IN (">> \o WriteParams(1, Len(a) - 1, Len(params)) \o <<")">>,
          args |-> a \o [i \in 1..Len(params) |-> ToLower(params[i])]]

\* andInClause returns the clause and appends the lower-cased params to *args.
andInClause(field, params, a) ==
    IF field = "" \/ Len(params) = 0
    THEN [in |-> <<>>, args |-> a]
    ELSE [in   |-> <<"AND " \o field \o " IN (">> \o WriteParams(1, Len(a), Len(params)) \o <<")">>,
          args |-> a \o [i \in 1..Len(params) |-> ToLower(params[i])]]

\* The database's answer to GetTables' query: $k is the k-th argument.
PostgresqlSelectTables(cat, in, a, fail) ==
    LET phs      == InPlaceholders(in)
        used     == {"$1"} \cup {phs[i] : i \in 1..Len(phs)}
        bound(p) == a[CHOOSE k \in 1..Len(a) : "$" \o Itoa(k) = p]
        hit      == {o \in cat.objects :
                        /\ o.type = "TABLE"       \* table_type = 'BASE TABLE'
                        /\ o.owner = bound("$1")
                        /\ \/ in = <<>>
                           \/ \E i \in 1..Len(phs) : ToLower(o.name) = bound(phs[i])}
        sorted   == OrderByName({o.name : o \in hit})
    IN  IF fail \/ used # {"$" \o Itoa(k) : k \in 1..Len(a)}
        THEN [rows |-> <<>>, err |-> QueryError]
        ELSE [rows |-> [i \in 1..Len(sorted) |-> NewTable(sorted[i])], err |-> Nil]

PostgresqlGetTables(S, cat, tbls, fail) ==
    LET built == andInClause("LOWER(table_name)", tbls, <<S.Schema>>)
        sel   == PostgresqlSelectTables(cat, built.in, built.args, fail)
    IN  [dbTables |-> sel.rows, err |-> sel.err, args |-> built.args, in |-> built.in,
         out |-> IF S.Verbose /\ sel.err # Nil
                 THEN << <<"> Error at GetTables()">>, <<"> schema:", S.Schema>> >>
                 ELSE <<>>]

---------------------------------------------------------------------------
(* Columns                                                                 *)

\* The orders in which a query may return the row set R.
Orders(R) ==
    {p \in [1..Cardinality(R) -> R] : \A i, j \in 1..Cardinality(R) : i # j => p[i] # p[j]}

\* The user of the session: Oracle.DSN takes Settings.User, "system" when it is
\* empty; the session's schema is that name upper-cased.
OracleSessionUser(S) ==
    ToUpper(IF S.User # <<>> THEN S.User ELSE <<"s", "y", "s", "t", "e", "m">>)

\* The rows of Oracle's prepared statement for :name: the columns selected
\* from USER_TAB_COLUMNS (the session user's own tables and views), scanned
\* into Column.  No selected column feeds ColumnKey, ConstraintName or
\* ConstraintType: they keep their zero value.
OracleColumnRows(cat, S, name) ==
    {[OrdinalPosition |-> c.pos,
      Name            |-> c.name,
      DataType        |-> c.dataType,
      IsNullable      |-> IF c.nullable THEN <<"Y">> ELSE <<"N">>,
      ColumnKey       |-> <<>>,
      ConstraintName  |-> <<>>,
      ConstraintType  |-> <<>>] :
        c \in {c \in cat.columns : c.owner = OracleSessionUser(S) /\ c.table = name}}

\* The statement has no ORDER BY: the rows come in any order.
OracleColumnOrders(cat, S, name) == Orders(OracleColumnRows(cat, S, name))

\* Oracle.GetColumnsOfTable returning, when verbose, the error wrapped in the
\* context it prints.
OracleGetColumnsOfTable_VerboseWraps(S, table, rows, fail) ==
    LET owner == IF S.Schema = <<>> THEN S.User ELSE S.Schema
        e     == IF fail THEN QueryError ELSE Nil
    IN  [table |-> IF fail THEN table ELSE [table EXCEPT !.Columns = @ \o rows],
         err   |-> IF e # Nil /\ S.Verbose THEN "GetColumnsOfTable: query failed" ELSE e,
         out   |-> IF e # Nil /\ S.Verbose
                   THEN << <<"> Error at GetColumnsOfTable", table.Name>>, <<"> owner:", owner>>,
                           <<"> dbName:">> >>
                   ELSE <<>>]

\* Oracle.GetColumnsOfTable: Select appends the rows to table.Columns.
OracleGetColumnsOfTable(S, table, rows, fail) ==
    LET owner == IF S.Schema = <<>> THEN S.User ELSE S.Schema
        e     == IF fail THEN QueryError ELSE Nil
    IN  [table |-> IF fail THEN table ELSE [table EXCEPT !.Columns = @ \o rows],
         err   |-> e,
         out   |-> IF e # Nil /\ S.Verbose
                   THEN << <<"> Error at GetColumnsOfTable", table.Name>>, <<"> owner:", owner>>,
                           <<"> dbName:">> >>
                   ELSE <<>>]

\* The rows of Postgresql's prepared statement for ($1, $2) = (name, schema):
\* information_schema.columns LEFT JOIN key_column_usage LEFT JOIN
\* table_constraints.  A column without a key constraint gives one row with
\* NULL constraint fields, a column with k key constraints gives k rows.
PostgresqlColumnRows(cat, name, schema) ==
    LET ic      == {c \in cat.columns : c.table = name /\ c.owner = schema}
        ikcu(c) == {k \in cat.keys :
                       k.table = c.table /\ k.owner = c.owner /\ k.column = c.name}
        row(c, cname, ctype) ==
            [OrdinalPosition |-> c.pos,
             Name            |-> c.name,
             DataType        |-> c.dataType,
             IsNullable      |-> IF c.nullable THEN <<"Y", "E", "S">> ELSE <<"N", "O">>,
             ColumnKey       |-> <<>>,
             ConstraintName  |-> cname,
             ConstraintType  |-> ctype]
    IN  {row(c, <<>>, <<>>) : c \in {c \in ic : ikcu(c) = {}}}
        \cup UNION {{row(c, k.constraint_name, k.constraint_type) : k \in ikcu(c)} : c \in ic}

\* ORDER BY ic.ordinal_position: ascending, rows of one position in any order.
PostgresqlColumnOrders(cat, name, schema) ==
    {p \in Orders(PostgresqlColumnRows(cat, name, schema)) :
        \A i, j \in 1..Len(p) : i < j => p[i].OrdinalPosition <= p[j].OrdinalPosition}

\* Postgresql.GetColumnsOfTable
PostgresqlGetColumnsOfTable(S, table, rows, fail) ==
    LET e == IF fail THEN QueryError ELSE Nil
    IN  [table |-> IF fail THEN table ELSE [table EXCEPT !.Columns = @ \o rows],
         err   |-> e,
         out   |-> IF S.Verbose /\ e # Nil
                   THEN << <<"> Error at GetColumnsOfTable", table.Name>>,
                           <<"> schema:", S.Schema>> >>
                   ELSE <<>>]

\* Oracle.IsPrimaryKey
OracleIsPrimaryKey(col) == Contains(col.ColumnKey, <<"P", "R", "I">>)

\* Postgresql.IsPrimaryKey
PostgresqlIsPrimaryKey(col) ==
    Contains(col.ConstraintType, <<"P", "R", "I", "M", "A", "R", "Y", " ", "K", "E", "Y">>)

\* Oracle.IsNullable comparing without regard to letter case.
OracleIsNullable_AnyCase(col) == ToUpper(col.IsNullable) = <<"Y">>

\* Oracle.IsNullable
OracleIsNullable(col) == col.IsNullable = <<"Y">>

---------------------------------------------------------------------------
(* Data type categories                                                    *)

\* isStringInSlice(needle, haystack): whether haystack holds needle.  The
\* helper is defined elsewhere in pkg/database; it is the plain membership
\* its name states, an element equal to needle.  Its callers show that it
\* does no case folding of its own: Oracle's tests upper-case the data type
\* before the call, against lists written in upper case.
isStringInSlice(needle, haystack) ==
    \E i \in 1..Len(haystack) : haystack[i] = needle

\* src/pkg/database/oracle.go: the list Oracle.GetStringDatatypes returns.
OracleGetStringDatatypes ==
    << <<"C", "H", "A", "R">> ,  \* CHAR
       <<"V", "A", "R", "C", "H", "A", "R", "2">> ,  \* VARCHAR2
       <<"N", "C", "H", "A", "R">> ,  \* NCHAR
       <<"N", "V", "A", "R", "C", "H", "A", "R", "2">>    \* NVARCHAR2
    >>

\* src/pkg/database/oracle.go: the list Oracle.GetTextDatatypes returns.
OracleGetTextDatatypes ==
    << <<"C", "L", "O", "B">> ,  \* CLOB
       <<"N", "C", "L", "O", "B">>    \* NCLOB
    >>

\* Oracle.GetIntegerDatatypes without NUMBER.
OracleGetIntegerDatatypes_NoNumber ==
    << <<"I", "N", "T", "E", "G", "E", "R">>,
       <<"S", "M", "A", "L", "L", "I", "N", "T">> >>

\* src/pkg/database/oracle.go: the list Oracle.GetIntegerDatatypes returns.
OracleGetIntegerDatatypes ==
    << <<"N", "U", "M", "B", "E", "R">> ,  \* NUMBER
       <<"I", "N", "T", "E", "G", "E", "R">> ,  \* INTEGER
       <<"S", "M", "A", "L", "L", "I", "N", "T">>    \* SMALLINT
    >>

\* src/pkg/database/oracle.go: the list Oracle.GetFloatDatatypes returns.
OracleGetFloatDatatypes ==
    << <<"F", "L", "O", "A", "T">> ,  \* FLOAT
       <<"B", "I", "N", "A", "R", "Y", "_", "F", "L", "O", "A", "T">> ,  \* BINARY_FLOAT
       <<"B", "I", "N", "A", "R", "Y", "_", "D", "O", "U", "B", "L", "E">> ,  \* BINARY_DOUBLE
       <<"D", "E", "C", "I", "M", "A", "L">> ,  \* DECIMAL
       <<"N", "U", "M", "B", "E", "R">> ,  \* NUMBER
       <<"R", "E", "A", "L">> ,  \* REAL
       <<"D", "O", "U", "B", "L", "E", " ", "P", "R", "E", "C", "I", "S", "I", "O", "N">>    \* DOUBLE PRECISION
    >>

\* src/pkg/database/oracle.go: the list Oracle.GetTemporalDatatypes returns.
OracleGetTemporalDatatypes ==
    << <<"D", "A", "T", "E">> ,  \* DATE
       <<"T", "I", "M", "E", "S", "T", "A", "M", "P">> ,  \* TIMESTAMP
       <<"T", "I", "M", "E", "S", "T", "A", "M", "P", " ", "W", "I", "T", "H", " ", "T", "I", "M", "E", " ", "Z", "O", "N", "E">> ,  \* TIMESTAMP WITH TIME ZONE
       <<"T", "I", "M", "E", "S", "T", "A", "M", "P", " ", "W", "I", "T", "H", " ", "L", "O", "C", "A", "L", " ", "T", "I", "M", "E", " ", "Z", "O", "N", "E">>    \* TIMESTAMP WITH LOCAL TIME ZONE
    >>

\* src/unnamed/part_001: the list Postgresql.GetStringDatatypes returns.
PostgresqlGetStringDatatypes ==
    << <<"c", "h", "a", "r", "a", "c", "t", "e", "r", " ", "v", "a", "r", "y", "i", "n", "g">> ,  \* character varying
       <<"v", "a", "r", "c", "h", "a", "r">> ,  \* varchar
       <<"c", "h", "a", "r", "a", "c", "t", "e", "r">> ,  \* character
       <<"c", "h", "a", "r">> ,  \* char
       <<"u", "u", "i", "d">>    \* uuid
    >>

\* src/unnamed/part_001: the list Postgresql.GetTextDatatypes returns.
PostgresqlGetTextDatatypes ==
    << <<"t", "e", "x", "t">>    \* text
    >>

\* src/unnamed/part_001: the list Postgresql.GetIntegerDatatypes returns.
PostgresqlGetIntegerDatatypes ==
    << <<"s", "m", "a", "l", "l", "i", "n", "t">> ,  \* smallint
       <<"i", "n", "t", "e", "g", "e", "r">> ,  \* integer
       <<"b", "i", "g", "i", "n", "t">> ,  \* bigint
       <<"s", "m", "a", "l", "l", "s", "e", "r", "i", "a", "l">> ,  \* smallserial
       <<"s", "e", "r", "i", "a", "l">> ,  \* serial
       <<"b", "i", "g", "s", "e", "r", "i", "a", "l">>    \* bigserial
    >>

\* src/unnamed/part_001: the list Postgresql.GetFloatDatatypes returns.
PostgresqlGetFloatDatatypes ==
    << <<"n", "u", "m", "e", "r", "i", "c">> ,  \* numeric
       <<"d", "e", "c", "i", "m", "a", "l">> ,  \* decimal
       <<"r", "e", "a", "l">> ,  \* real
       <<"d", "o", "u", "b", "l", "e", " ", "p", "r", "e", "c", "i", "s", "i", "o", "n">>    \* double precision
    >>

\* src/unnamed/part_001: the list Postgresql.GetTemporalDatatypes returns.
PostgresqlGetTemporalDatatypes ==
    << <<"t", "i", "m", "e">> ,  \* time
       <<"t", "i", "m", "e", "s", "t", "a", "m", "p">> ,  \* timestamp
       <<"t", "i", "m", "e", " ", "w", "i", "t", "h", " ", "t", "i", "m", "e", " ", "z", "o", "n", "e">> ,  \* time with time zone
       <<"t", "i", "m", "e", "s", "t", "a", "m", "p", " ", "w", "i", "t", "h", " ", "t", "i", "m", "e", " ", "z", "o", "n", "e">> ,  \* timestamp with time zone
       <<"t", "i", "m", "e", " ", "w", "i", "t", "h", "o", "u", "t", " ", "t", "i", "m", "e", " ", "z", "o", "n", "e">> ,  \* time without time zone
       <<"t", "i", "m", "e", "s", "t", "a", "m", "p", " ", "w", "i", "t", "h", "o", "u", "t", " ", "t", "i", "m", "e", " ", "z", "o", "n", "e">> ,  \* timestamp without time zone
       <<"d", "a", "t", "e">>    \* date
    >>

OracleIsString(col)   == isStringInSlice(ToUpper(col.DataType), OracleGetStringDatatypes)

OracleIsText(col)     == isStringInSlice(ToUpper(col.DataType), OracleGetTextDatatypes)

OracleIsInteger(col)  == isStringInSlice(ToUpper(col.DataType), OracleGetIntegerDatatypes)

OracleIsFloat(col)    == isStringInSlice(ToUpper(col.DataType), OracleGetFloatDatatypes)

OracleIsTemporal(col) == isStringInSlice(ToUpper(col.DataType), OracleGetTemporalDatatypes)

PostgresqlIsString(col)   == isStringInSlice(col.DataType, PostgresqlGetStringDatatypes)

PostgresqlIsText(col)     == isStringInSlice(col.DataType, PostgresqlGetTextDatatypes)

PostgresqlIsInteger(col)  == isStringInSlice(col.DataType, PostgresqlGetIntegerDatatypes)

PostgresqlIsFloat(col)    == isStringInSlice(col.DataType, PostgresqlGetFloatDatatypes)

PostgresqlIsTemporal(col) == isStringInSlice(col.DataType, PostgresqlGetTemporalDatatypes)

\* The caller's classification: the tests asked in the order String, Text,
\* Integer, Float, Temporal; the first that answers TRUE names the category.
Classify(isString, isText, isInteger, isFloat, isTemporal) ==
    IF isString THEN "String"
    ELSE IF isText THEN "Text"
    ELSE IF isInteger THEN "Integer"
    ELSE IF isFloat THEN "Float"
    ELSE IF isTemporal THEN "Temporal"
    ELSE "Unknown"

\* The answers of the Oracle backend on one column.
OracleVerdict(col) ==
    [IsString   |-> OracleIsString(col),
     IsText     |-> OracleIsText(col),
     IsInteger  |-> OracleIsInteger(col),
     IsFloat    |-> OracleIsFloat(col),
     IsTemporal |-> OracleIsTemporal(col),
     IsNullable |-> OracleIsNullable(col),
     category   |-> Classify(OracleIsString(col), OracleIsText(col), OracleIsInteger(col),
                             OracleIsFloat(col), OracleIsTemporal(col))]

\* The answers of the Postgresql backend on one column.
PostgresqlVerdict(col) ==
    [IsString   |-> PostgresqlIsString(col),
     IsText     |-> PostgresqlIsText(col),
     IsInteger  |-> PostgresqlIsInteger(col),
     IsFloat    |-> PostgresqlIsFloat(col),
     IsTemporal |-> PostgresqlIsTemporal(col),
     category   |-> Classify(PostgresqlIsString(col), PostgresqlIsText(col),
                             PostgresqlIsInteger(col), PostgresqlIsFloat(col),
                             PostgresqlIsTemporal(col))]

---------------------------------------------------------------------------
(* Inputs                                                                  *)

MaxFilter == 2          \* the longest name filter of SpecList

MaxLoadFilter == 1      \* the longest name filter of Spec

OwnerA == <<"A">>

OwnerB == <<"B">>

\* The objects a catalog may hold.  Both backends keep a quoted identifier
\* as written, so one owner may hold "OR" and "or".
ObjectPool ==
    {[owner |-> OwnerA, name |-> <<"O", "R">>, type |-> "TABLE"],
     [owner |-> OwnerA, name |-> <<"o", "r">>, type |-> "TABLE"],
     [owner |-> OwnerA, name |-> <<"P">>,      type |-> "TABLE"],
     [owner |-> OwnerA, name |-> <<"V">>,      type |-> "VIEW"],
     [owner |-> OwnerB, name |-> <<"O", "R">>, type |-> "TABLE"],
     [owner |-> OwnerB, name |-> <<"P">>,      type |-> "VIEW"]}

TypeInteger == <<"I", "N", "T", "E", "G", "E", "R">>

\* The columns of each object of ObjectPool.
ColumnPool ==
    {[owner |-> OwnerA, table |-> <<"O", "R">>, name |-> <<"i", "d">>, pos |-> 1,
      dataType |-> TypeInteger, nullable |-> FALSE],
     [owner |-> OwnerA, table |-> <<"O", "R">>, name |-> <<"n", "m">>, pos |-> 2,
      dataType |-> TypeInteger, nullable |-> TRUE],
     [owner |-> OwnerA, table |-> <<"o", "r">>, name |-> <<"n", "m">>, pos |-> 1,
      dataType |-> TypeInteger, nullable |-> TRUE],
     [owner |-> OwnerA, table |-> <<"P">>, name |-> <<"i", "d">>, pos |-> 1,
      dataType |-> TypeInteger, nullable |-> FALSE],
     [owner |-> OwnerA, table |-> <<"V">>, name |-> <<"i", "d">>, pos |-> 1,
      dataType |-> TypeInteger, nullable |-> TRUE],
     [owner |-> OwnerB, table |-> <<"O", "R">>, name |-> <<"z">>, pos |-> 1,
      dataType |-> TypeInteger, nullable |-> FALSE],
     [owner |-> OwnerB, table |-> <<"P">>, name |-> <<"i", "d">>, pos |-> 1,
      dataType |-> TypeInteger, nullable |-> TRUE]}

PrimaryKey == <<"P", "R", "I", "M", "A", "R", "Y", " ", "K", "E", "Y">>

ForeignKey == <<"F", "O", "R", "E", "I", "G", "N", " ", "K", "E", "Y">>

\* The key constraints a catalog may hold.
KeyPool ==
    {[owner |-> OwnerA, table |-> <<"O", "R">>, column |-> <<"i", "d">>,
      constraint_name |-> <<"p", "k">>, constraint_type |-> PrimaryKey],
     [owner |-> OwnerA, table |-> <<"O", "R">>, column |-> <<"i", "d">>,
      constraint_name |-> <<"f", "k">>, constraint_type |-> ForeignKey],
     [owner |-> OwnerB, table |-> <<"O", "R">>, column |-> <<"z">>,
      constraint_name |-> <<"p", "k">>, constraint_type |-> PrimaryKey]}

\* A catalog with the objects O and the key constraints K.
Catalog(O, K) ==
    [objects |-> O,
     columns |-> {c \in ColumnPool : \E o \in O : o.owner = c.owner /\ o.name = c.table},
     keys    |-> K]

\* The catalogs of Spec: every set of objects, with every set of key
\* constraints on their columns.
Catalogs ==
    {cat \in {Catalog(O, K) : O \in SUBSET ObjectPool, K \in SUBSET KeyPool} :
        \A k \in cat.keys : \E c \in cat.columns :
            c.owner = k.owner /\ c.table = k.table /\ c.name = k.column}

\* The catalogs of SpecList: every set of objects.
ListCatalogs == {Catalog(O, {}) : O \in SUBSET ObjectPool}

SettingsInputs ==
    [Schema : {<<>>, <<"A">>, <<"b">>}, User : {<<>>, <<"A">>, <<"b">>}, Verbose : BOOLEAN]

\* The names a filter may hold: "x" names no object.
FilterNames == {<<"O", "R">>, <<"o", "r">>, <<"p">>, <<"x">>}

Filters(n) == UNION {[1..k -> FilterNames] : k \in 0..n}

\* The data types listed by either backend.
ListedTypes ==
    UNION {{L[i] : i \in 1..Len(L)} :
           L \in {OracleGetStringDatatypes, OracleGetTextDatatypes, OracleGetIntegerDatatypes,
                  OracleGetFloatDatatypes, OracleGetTemporalDatatypes,
                  PostgresqlGetStringDatatypes, PostgresqlGetTextDatatypes,
                  PostgresqlGetIntegerDatatypes, PostgresqlGetFloatDatatypes,
                  PostgresqlGetTemporalDatatypes}}

\* s with its first letter in upper case and the rest in lower case.
Capitalize(s) == [i \in 1..Len(s) |-> IF i = 1 THEN ToUpperChar(s[i]) ELSE ToLowerChar(s[i])]

\* Data types no list holds.
UnlistedTypes ==
    {<<"B", "L", "O", "B">>, <<"j", "s", "o", "n">>, <<"V", "A", "R">>,
     <<"T", "I", "M", "E", "S", "T", "A", "M", "P", "(", "6", ")">>}

\* The data types classified: every listed type as written, in upper case,
\* in lower case and capitalized, and the unlisted ones.
DataTypeInputs ==
    ListedTypes \cup {ToUpper(d) : d \in ListedTypes} \cup {ToLower(d) : d \in ListedTypes}
    \cup {Capitalize(d) : d \in ListedTypes} \cup UnlistedTypes

NullableInputs ==
    {<<>>, <<"y">>, <<"Y">>, <<"Y", "E", "S">>, <<"N">>, <<"N", "O">>}

ColumnInputs ==
    {[OrdinalPosition |-> 1, Name |-> <<"c">>, DataType |-> d, IsNullable |-> n,
      ColumnKey |-> <<>>, ConstraintName |-> <<>>, ConstraintType |-> <<>>] :
        d \in DataTypeInputs, n \in NullableInputs}

---------------------------------------------------------------------------
(* The state machine                                                       *)

InitBase ==
    /\ db \in {"oracle", "postgresql"}
    /\ tables = <<>>
    /\ dbTables = <<>>
    /\ err = Nil
    /\ args = <<>>
    /\ inClause = <<>>
    /\ outcome = [op |-> Nil, fail |-> FALSE, rows |-> <<>>]
    /\ stdout = <<>>
    /\ GetColumnsOfTableStmt = Nil
    /\ idx = 1
    /\ column = Nil
    /\ verdict = Nil

\* The loader's order (list the tables, prepare the statement once, fetch the
\* columns table by table, stop at the first error).
CanList == pc = "start"

CanPrepare == pc = "listed"

CanFetch == pc = "prepared" /\ idx <= Len(dbTables)

Listed(r, tbls, fail) ==
    /\ tables' = tbls
    /\ outcome' = [op |-> "GetTables", fail |-> fail, rows |-> <<>>]
    /\ dbTables' = r.dbTables
    /\ err' = r.err
    /\ args' = r.args
    /\ inClause' = r.in
    /\ stdout' = stdout \o r.out
    /\ pc' = IF r.err = Nil THEN "listed" ELSE "failed"
    /\ UNCHANGED <<db, Settings, catalog, GetColumnsOfTableStmt, idx, column, verdict>>

Oracle_GetTables(F) ==
    /\ db = "oracle"
    /\ CanList
    /\ \E tbls \in F, fail \in BOOLEAN :
           Listed(OracleGetTables(Settings, catalog, tbls, fail), tbls, fail)

Postgresql_GetTables(F) ==
    /\ db = "postgresql"
    /\ CanList
    /\ \E tbls \in F, fail \in BOOLEAN :
           Listed(PostgresqlGetTables(Settings, catalog, tbls, fail), tbls, fail)

\* Preparex either compiles the statement or fails.
Prepared(fail) ==
    /\ GetColumnsOfTableStmt' = IF fail THEN Nil ELSE "prepared"
    /\ err' = IF fail THEN QueryError ELSE Nil
    /\ outcome' = [op |-> "PrepareGetColumnsOfTableStmt", fail |-> fail, rows |-> <<>>]
    /\ pc' = IF fail THEN "failed" ELSE "prepared"
    /\ UNCHANGED <<db, Settings, catalog, tables, dbTables, args, inClause, stdout, idx,
                   column, verdict>>

Oracle_PrepareGetColumnsOfTableStmt ==
    /\ db = "oracle"
    /\ CanPrepare
    /\ \E fail \in BOOLEAN : Prepared(fail)

Postgresql_PrepareGetColumnsOfTableStmt ==
    /\ db = "postgresql"
    /\ CanPrepare
    /\ \E fail \in BOOLEAN : Prepared(fail)

Fetched(r, rows, fail) ==
    /\ dbTables' = [dbTables EXCEPT ![idx] = r.table]
    /\ err' = r.err
    /\ outcome' = [op |-> "GetColumnsOfTable", fail |-> fail, rows |-> rows]
    /\ stdout' = stdout \o r.out
    /\ idx' = idx + 1
    /\ pc' = IF r.err = Nil THEN pc ELSE "failed"
    /\ UNCHANGED <<db, Settings, catalog, tables, args, inClause, GetColumnsOfTableStmt,
                   column, verdict>>

Oracle_GetColumnsOfTable ==
    /\ db = "oracle"
    /\ CanFetch
    /\ \E rows \in OracleColumnOrders(catalog, Settings, dbTables[idx].Name), fail \in BOOLEAN :
           Fetched(OracleGetColumnsOfTable(Settings, dbTables[idx], rows, fail), rows, fail)

Postgresql_GetColumnsOfTable ==
    /\ db = "postgresql"
    /\ CanFetch
    /\ \E rows \in PostgresqlColumnOrders(catalog, dbTables[idx].Name, Settings.Schema),
          fail \in BOOLEAN :
           Fetched(PostgresqlGetColumnsOfTable(Settings, dbTables[idx], rows, fail), rows, fail)

Oracle_Classify ==
    /\ db = "oracle"
    /\ pc = "classify"
    /\ \E col \in ColumnInputs :
           /\ column' = col
           /\ verdict' = OracleVerdict(col)
    /\ pc' = "classified"
    /\ UNCHANGED <<db, Settings, catalog, tables, dbTables, err, args, inClause, outcome,
                   stdout, GetColumnsOfTableStmt, idx>>

Postgresql_Classify ==
    /\ db = "postgresql"
    /\ pc = "classify"
    /\ \E col \in ColumnInputs :
           /\ column' = col
           /\ verdict' = PostgresqlVerdict(col)
    /\ pc' = "classified"
    /\ UNCHANGED <<db, Settings, catalog, tables, dbTables, err, args, inClause, outcome,
                   stdout, GetColumnsOfTableStmt, idx>>

\* One run of the loader against a catalog.
Init == InitBase /\ pc = "start" /\ Settings \in SettingsInputs /\ catalog \in Catalogs

Next ==
    \/ Oracle_GetTables(Filters(MaxLoadFilter))
    \/ Postgresql_GetTables(Filters(MaxLoadFilter))
    \/ Oracle_PrepareGetColumnsOfTableStmt
    \/ Postgresql_PrepareGetColumnsOfTableStmt
    \/ Oracle_GetColumnsOfTable
    \/ Postgresql_GetColumnsOfTable

Spec == Init /\ [][Next]_vars

\* GetTables alone, under every filter of up to MaxFilter names.
InitList ==
    InitBase /\ pc = "start" /\ Settings \in SettingsInputs /\ catalog \in ListCatalogs

NextList ==
    \/ Oracle_GetTables(Filters(MaxFilter))
    \/ Postgresql_GetTables(Filters(MaxFilter))

SpecList == InitList /\ [][NextList]_vars

\* The predicates on a column, applied once to any input column.
InitTypes ==
    /\ InitBase
    /\ pc = "classify"
    /\ Settings = [Schema |-> <<>>, User |-> <<>>, Verbose |-> FALSE]
    /\ catalog = Catalog({}, {})

NextTypes == Oracle_Classify \/ Postgresql_Classify

SpecTypes == InitTypes /\ [][NextTypes]_vars

(* Vocabulary of the properties                                            *)

\* The schema/owner the settings configure, as the backend names it.
ConfiguredScope ==
    IF db = "oracle"
    THEN ToUpper(IF Settings.Schema = <<>> THEN Settings.User ELSE Settings.Schema)
    ELSE Settings.Schema

\* The base tables the catalog holds in the configured scope.
BaseTablesInScope ==
    {o \in catalog.objects : o.type = "TABLE" /\ o.owner = ConfiguredScope}

\* Two names that differ at most in letter case.
SameModCase(a, b) == ToLower(a) = ToLower(b)

\* The product's case convention: Oracle upper case, Postgresql lower case.
Normalized(name) == IF db = "oracle" THEN ToUpper(name) ELSE ToLower(name)

ListedNames == {dbTables[i].Name : i \in 1..Len(dbTables)}

NamesAscending ==
    \A i \in 1..Len(dbTables) - 1 : StrLess(dbTables[i].Name, dbTables[i + 1].Name)

---------------------------------------------------------------------------
(* C1                                                                      *)

\* C1: after a successful GetTables with a non-empty filter, the returned
\* names are exactly the base tables of the configured scope whose name
\* equals a filter name up to letter case: none omitted, none extra.
C1_FilterIsIntersection ==
    (pc = "listed" /\ tables # <<>>) =>
        ListedNames = {o.name : o \in {o \in BaseTablesInScope :
                                          \E i \in 1..Len(tables) : SameModCase(o.name, tables[i])}}

---------------------------------------------------------------------------
(* C2                                                                      *)

\* C2 as stated: after a successful GetTables with an empty filter, the
\* result holds every base table of the configured scope and no view, in
\* ascending order of name, each name in the product's case convention.
C2_SortedAndCaseNormalized ==
    (pc = "listed" /\ tables = <<>>) =>
        /\ ListedNames = {o.name : o \in BaseTablesInScope}
        /\ NamesAscending
        /\ \A i \in 1..Len(dbTables) : dbTables[i].Name = Normalized(dbTables[i].Name)

\* C2 amended: after a successful GetTables with an empty filter, the result
\* holds every base table of the configured scope and no view, in strictly
\* ascending byte order of name, each name exactly as the catalog stores it.
C2_SortedAsStored ==
    (pc = "listed" /\ tables = <<>>) =>
        /\ ListedNames = {o.name : o \in BaseTablesInScope}
        /\ Len(dbTables) = Cardinality(BaseTablesInScope)
        /\ NamesAscending
        /\ \A i \in 1..Len(dbTables) : dbTables[i].Columns = <<>>

\* An empty filter listed two tables, one of them not in the product's case
\* convention, from a catalog that also holds a view in the same scope and
\* a table of another owner.
C2_Witness ==
    /\ pc = "listed"
    /\ tables = <<>>
    /\ Len(dbTables) >= 2
    /\ \E i \in 1..Len(dbTables) : dbTables[i].Name # Normalized(dbTables[i].Name)
    /\ \E o \in catalog.objects : o.type = "VIEW" /\ o.owner = ConfiguredScope
    /\ \E o \in catalog.objects : o.type = "TABLE" /\ o.owner # ConfiguredScope

---------------------------------------------------------------------------
(* C10                                                                     *)

\* The i-th placeholder GetTables emits for a filter name, when a scope argument
\* precedes the filter names.
ExpectedPlaceholder(i) ==
    IF db = "oracle" THEN ":v" \o Itoa(i - 1) ELSE "$" \o Itoa(1 + i)

\* The position of the argument the database binds to the i-th placeholder of
\* the IN clause: Oracle binds by position in the text, after :owner;
\* Postgresql binds $k to the k-th argument.
BoundPosition(i) ==
    IF db = "oracle" THEN 1 + i
    ELSE CHOOSE k \in 1..(Len(tables) + Len(args) + 1) : "$" \o Itoa(k) = InPlaceholders(inClause)[i]

\* C10: whenever GetTables has built its query for a filter of n names, the
\* scope is the first argument and the n case-normalized names follow it in
\* order; the clause holds exactly n placeholders, separated by commas with
\* none trailing, the i-th being :v(i-1) (Oracle) or $(1+i) (Postgresql) and
\* bound to the argument that holds the i-th name; with an empty filter
\* there is no IN clause and the scope is the only argument.
C10_PlaceholdersAligned ==
    (outcome.op = "GetTables") =>
        LET n == Len(tables) IN
        /\ Len(args) = 1 + n
        /\ args[1] = ConfiguredScope
        /\ \A i \in 1..n : args[1 + i] = Normalized(tables[i])
        /\ n = 0 => inClause = <<>>
        /\ n > 0 =>
              /\ Len(inClause) = 2 * n + 1
              /\ inClause[1] = (IF db = "oracle" THEN "AND OBJECT_NAME IN ("
                                                 ELSE "AND LOWER(table_name) IN (")
              /\ inClause[2 * n + 1] = ")"
              /\ \A i \in 1..n : inClause[2 * i] = ExpectedPlaceholder(i)
              /\ \A i \in 1..(n - 1) : inClause[2 * i + 1] = ","
              /\ \A i \in 1..n : args[BoundPosition(i)] = Normalized(tables[i])

\* Postgresql built the query for a filter of two names in mixed case.
C10_Witness ==
    /\ outcome.op = "GetTables"
    /\ db = "postgresql"
    /\ Len(tables) = 2
    /\ tables[1] # ToLower(tables[1])
    /\ inClause = <<"AND LOWER(table_name) IN (", "$2", ",", "$3", ")">>

---------------------------------------------------------------------------
(* C3, C6, C9: the columns GetColumnsOfTable attaches                      *)

\* The tables whose columns a successful GetColumnsOfTable has fetched.
FetchedOk ==
    {i \in 1..Len(dbTables) :
        /\ i < idx
        /\ ~(i = idx - 1 /\ outcome.op = "GetColumnsOfTable" /\ outcome.fail)}

IsPrimaryKey(col) ==
    IF db = "oracle" THEN OracleIsPrimaryKey(col) ELSE PostgresqlIsPrimaryKey(col)

\* The columns the catalog reports for the table of that name in the
\* configured scope.
CatalogColumns(name) ==
    {c \in catalog.columns : c.owner = ConfiguredScope /\ c.table = name}

\* The catalog records a primary-key constraint on column cname of the table.
CatalogPrimaryKey(name, cname) ==
    \E k \in catalog.keys :
        /\ k.owner = ConfiguredScope
        /\ k.table = name
        /\ k.column = cname
        /\ k.constraint_type = PrimaryKey

\* C3: after a successful GetColumnsOfTable, the table's Columns are in
\* strictly ascending OrdinalPosition.
C3_ColumnsByOrdinal ==
    \A i \in FetchedOk :
        \A j \in 1..Len(dbTables[i].Columns) - 1 :
            dbTables[i].Columns[j].OrdinalPosition < dbTables[i].Columns[j + 1].OrdinalPosition

\* C6: for every column GetColumnsOfTable has populated, IsPrimaryKey holds
\* exactly when the catalog records a primary-key constraint on that column.
C6_PrimaryKeyIffCatalog ==
    \A i \in FetchedOk :
        \A j \in 1..Len(dbTables[i].Columns) :
            IsPrimaryKey(dbTables[i].Columns[j])
                <=> CatalogPrimaryKey(dbTables[i].Name, dbTables[i].Columns[j].Name)

\* C9: for every table GetTables returned, a successful GetColumnsOfTable
\* fills Columns with exactly the columns the catalog reports for the table
\* of that name in the configured scope, one entry per column.
C9_ColumnsOfSameScope ==
    \A i \in FetchedOk :
        LET cols == dbTables[i].Columns
            cc   == CatalogColumns(dbTables[i].Name)
        IN  /\ Len(cols) = Cardinality(cc)
            /\ {<<cols[j].Name, cols[j].OrdinalPosition>> : j \in 1..Len(cols)}
                   = {<<c.name, c.pos>> : c \in cc}

---------------------------------------------------------------------------
(* C8                                                                      *)

\* The run's settings with the other verbosity.
OtherVerbosity == [Settings EXCEPT !.Verbose = ~@]

\* GetTables of the run's backend under the settings S, on the run's catalog,
\* filter and query outcome.
GetTablesUnder(S) ==
    IF db = "oracle"
    THEN OracleGetTables(S, catalog, tables, outcome.fail)
    ELSE PostgresqlGetTables(S, catalog, tables, outcome.fail)

\* GetColumnsOfTable of the run's backend under the settings S, on the table
\* as it was before the last fetch and on that fetch's query outcome.
GetColumnsOfTableUnder(S) ==
    LET before == [dbTables[idx - 1] EXCEPT !.Columns = <<>>]
    IN  IF db = "oracle"
        THEN OracleGetColumnsOfTable(S, before, outcome.rows, outcome.fail)
        ELSE PostgresqlGetColumnsOfTable(S, before, outcome.rows, outcome.fail)

\* The row orders the database may answer the fetch of table name with, under S.
ColumnOrdersUnder(S, name) ==
    IF db = "oracle"
    THEN OracleColumnOrders(catalog, S, name)
    ELSE PostgresqlColumnOrders(catalog, name, S.Schema)

\* C8: what GetTables and GetColumnsOfTable return does not depend on
\* Verbose: with the other verbosity, on the same catalog, filter and query
\* outcome, they return the tables, columns and error this run got; the
\* error is the query's own, the run fails exactly when an operation returned
\* an error, and only a failing verbose run prints.
C8_VerboseChangesNothing ==
    /\ outcome.op = "GetTables" =>
          /\ GetTablesUnder(OtherVerbosity).dbTables = dbTables
          /\ GetTablesUnder(OtherVerbosity).err = err
          /\ GetTablesUnder(OtherVerbosity).args = args
          /\ GetTablesUnder(OtherVerbosity).in = inClause
    /\ outcome.op = "GetColumnsOfTable" =>
          /\ GetColumnsOfTableUnder(OtherVerbosity).table = dbTables[idx - 1]
          /\ GetColumnsOfTableUnder(OtherVerbosity).err = err
          /\ ColumnOrdersUnder(OtherVerbosity, dbTables[idx - 1].Name)
                 = ColumnOrdersUnder(Settings, dbTables[idx - 1].Name)
    /\ outcome.op # Nil => err = (IF outcome.fail THEN QueryError ELSE Nil)
    /\ (pc = "failed") <=> (err # Nil)
    /\ stdout # <<>> => (Settings.Verbose /\ err # Nil)

\* A verbose run whose second fetch failed and printed, after a first fetch
\* that attached columns.
C8_Witness ==
    /\ Settings.Verbose
    /\ outcome.op = "GetColumnsOfTable"
    /\ outcome.fail
    /\ idx = 3
    /\ dbTables[1].Columns # <<>>
    /\ stdout # <<>>
    /\ err = QueryError

---------------------------------------------------------------------------
(* C4, C5, C7: the predicates on a column                                  *)

\* The five category tests of the run's backend on a column, in the fixed order.
CategoryTests(col) ==
    IF db = "oracle"
    THEN <<OracleIsString(col), OracleIsText(col), OracleIsInteger(col), OracleIsFloat(col),
           OracleIsTemporal(col)>>
    ELSE <<PostgresqlIsString(col), PostgresqlIsText(col), PostgresqlIsInteger(col),
           PostgresqlIsFloat(col), PostgresqlIsTemporal(col)>>

\* The five category lists of the run's backend, in the same order.
CategoryLists ==
    IF db = "oracle"
    THEN <<OracleGetStringDatatypes, OracleGetTextDatatypes, OracleGetIntegerDatatypes,
           OracleGetFloatDatatypes, OracleGetTemporalDatatypes>>
    ELSE <<PostgresqlGetStringDatatypes, PostgresqlGetTextDatatypes,
           PostgresqlGetIntegerDatatypes, PostgresqlGetFloatDatatypes,
           PostgresqlGetTemporalDatatypes>>

CategoryNames == <<"String", "Text", "Integer", "Float", "Temporal">>

\* The answers recorded for the classified column, in the same order.
Answers ==
    <<verdict.IsString, verdict.IsText, verdict.IsInteger, verdict.IsFloat, verdict.IsTemporal>>

C5_FirstMatchWins ==
    (pc = "classified") =>
        /\ \A k \in 1..5 :
               (Answers[k] /\ \A j \in 1..(k - 1) : ~Answers[j]) => verdict.category = CategoryNames[k]
        /\ (\A k \in 1..5 : ~Answers[k]) => verdict.category = "Unknown"
        /\ (db = "oracle" /\ ToUpper(column.DataType) = <<"N", "U", "M", "B", "E", "R">>) =>
               /\ verdict.IsInteger
               /\ verdict.IsFloat
               /\ verdict.category = "Integer"
        /\ db = "postgresql" => Cardinality({k \in 1..5 : Answers[k]}) <= 1

\* Oracle classified "number": both the integer and the float test accept
\* it, and the category is Integer.
C5_Witness ==
    /\ pc = "classified"
    /\ db = "oracle"
    /\ column.DataType = <<"n", "u", "m", "b", "e", "r">>
    /\ verdict.IsInteger
    /\ verdict.IsFloat
    /\ verdict.category = "Integer"

\* C7: Oracle's IsNullable answers TRUE exactly when the column's nullability
\* flag is the one-character string "Y".
C7_NullableOnlyY ==
    (pc = "classified" /\ db = "oracle") =>
        (verdict.IsNullable <=> (Len(column.IsNullable) = 1 /\ column.IsNullable[1] = "Y"))

\* Oracle answered FALSE for the flag "y".
C7_Witness ==
    /\ pc = "classified"
    /\ db = "oracle"
    /\ column.IsNullable = <<"y">>
    /\ ~verdict.IsNullable

=============================================================================
